---- MODULE Spec2Model ----
(***************************************************************************)
(* Shift-assignment engine of shiftmaterepo: the two strategies whose      *)
(* source is present (PreferenceBasedStrategy, DayNightDistributeStrategy),*)
(* the ScheduleClient orchestrator (auto_populate, balance validation,     *)
(* catalog generation, clear and save steps) and the Scheduler registry.   *)
(*                                                                         *)
(* Times are minutes since 00:00 of day 0; day 0 is a Monday (weekday 0).  *)
(* Hours (total_hours, durations) are kept in minutes, so that the         *)
(* 16:00-23:59 slot of the mixed catalog keeps its length of 479 minutes.  *)
(***************************************************************************)
EXTENDS Integers, Sequences, FiniteSets, TLC

VARIABLES
  prefs,            \* preference store: staff id -> record (found = FALSE: no record / lookup fails)
  roster,           \* the `staff` argument: sequence of distinct staff ids
  shifts,           \* the `shifts` argument: sequence of shift records
  total_hours,      \* staff id -> person.total_hours (minutes)
  assigned_shifts,  \* staff id -> person.assigned_shifts (sequence of shift indexes)
  assigned_staff,   \* shift index -> shift.assigned_staff (sequence of staff ids)
  strategy,         \* the strategy instance whose generate_schedule is running
  pc,               \* position inside generate_schedule
  order,            \* PreferenceBased: sorted_shifts (sequence of shift indexes)
  idx,              \* position of the running for-loop over shifts
  cands,            \* candidates[:needed] still to be processed for the current shift
  day_shifts,       \* DayNight: day bucket
  night_shifts,     \* DayNight: night bucket
  day_staff,        \* DayNight: day-preferring staff
  night_staff,      \* DayNight: night-preferring staff
  neutral_staff,    \* DayNight: neutral pool (shrinks during the run)
  result,           \* the ScheduleResult returned (or the error raised) by the last generate_schedule
  carried,          \* history: the running call began on objects that carried assignments
  previous,         \* history: the run of the same strategy that had just finished when the running call was made
  preempted,        \* history: the running call was suspended in favour of the other invocation
  other,            \* the frame of a second, suspended invocation of generate_schedule
  db,               \* committed rows of the Shift table
  session_new,      \* db.session: rows added and not yet committed
  session_deleted,  \* db.session: ids of rows marked for deletion and not yet committed
  next_id,          \* next primary key of the Shift table
  apc,              \* position inside auto_populate
  args,             \* the arguments of the auto_populate call
  db0,              \* history: the committed rows when auto_populate was called
  deleted_count,    \* auto_populate: deleted_count
  shifts_created,   \* auto_populate: shifts_created
  outcome,          \* what auto_populate returned, or the exception it raised
  v_summary,        \* balance validation alone: the summary argument
  v_count,          \* balance validation alone: the staff_count argument
  v_outcome,        \* balance validation alone: how the call ended
  shift_table,      \* time clock: shift id -> the Shift row (staff_id, clock_in, clock_out)
  shift_table_before, \* history: the Shift rows before the last clock_in / clock_out call
  last_call         \* history: the last clock_in / clock_out call and how it ended

stratVars == <<prefs, roster, shifts, total_hours, assigned_shifts, assigned_staff,
               strategy, pc, order, idx, cands, day_shifts, night_shifts,
               day_staff, night_staff, neutral_staff, result, carried,
               previous, preempted, other>>

autoVars == <<db, session_new, session_deleted, next_id, apc, args, db0,
              deleted_count, shifts_created, outcome>>

valVars == <<v_summary, v_count, v_outcome>>

clockVars == <<shift_table, shift_table_before, last_call>>

vars == <<stratVars, autoVars, valVars, clockVars>>

(***************************************************************************)
(* Bounds of the model                                                     *)
(***************************************************************************)
NStaff == 2
MaxShifts == 3

StaffIds == 1..NStaff

MinutesPerHour == 60
MinutesPerDay == 1440

(***************************************************************************)
(* Generic helpers                                                         *)
(***************************************************************************)
Range(s) == {s[i] : i \in 1..Len(s)}

Take(s, n) == SubSeq(s, 1, IF n < Len(s) THEN n ELSE Len(s))

RemoveFirst(s, x) ==
  IF x \notin Range(s) THEN s
  ELSE LET p == CHOOSE i \in 1..Len(s) : s[i] = x /\ \A j \in 1..(i-1) : s[j] # x
       IN SubSeq(s, 1, p-1) \o SubSeq(s, p+1, Len(s))

FilterSeq(s, Keep(_)) ==
  LET f[k \in 0..Len(s)] ==
        IF k = 0 THEN <<>>
        ELSE IF Keep(s[k]) THEN Append(f[k-1], s[k]) ELSE f[k-1]
  IN f[Len(s)]

\* list.sort / sorted: a stable sort, Lt(a, b) meaning key(a) < key(b)
StableSort(s, Lt(_, _)) ==
  LET Ins(sorted, x) ==
        LET p == Cardinality({j \in 1..Len(sorted) : ~Lt(x, sorted[j])})
        IN SubSeq(sorted, 1, p) \o <<x>> \o SubSeq(sorted, p+1, Len(sorted))
      pre[k \in 0..Len(s)] == IF k = 0 THEN <<>> ELSE Ins(pre[k-1], s[k])
  IN pre[Len(s)]

SumOver(s, Val(_)) ==
  LET f[k \in 0..Len(s)] == IF k = 0 THEN 0 ELSE f[k-1] + Val(s[k])
  IN f[Len(s)]

Abs(x) == IF x < 0 THEN -x ELSE x

(***************************************************************************)
(* Preference lookup                                                       *)
(***************************************************************************)
DefaultMaxHours == 40

DefaultPrefs ==
  [found |-> FALSE, preferred_shift_types |-> {}, unavailable_days |-> {},
   max_hours_per_week |-> DefaultMaxHours, skills |-> {}]

\* get_preferences(person.id) with the callers' `or {...}` / except fallback
GetPreferences(s) == IF prefs[s].found THEN prefs[s] ELSE DefaultPrefs

(***************************************************************************)
(* Shift attributes                                                        *)
(***************************************************************************)
StartHour(sh) == (sh.start_time % MinutesPerDay) \div MinutesPerHour

Weekday(sh) == (sh.start_time \div MinutesPerDay) % 7

\* (end_time - start_time).total_seconds() / 3600, else duration_hours
ShiftDuration(sh) ==
  IF sh.has_start THEN sh.end_time - sh.start_time ELSE sh.duration_hours

PBS_GetShiftType(sh) ==
  IF ~sh.has_start THEN "regular"
  ELSE IF 6 <= StartHour(sh) /\ StartHour(sh) < 14 THEN "morning"
  ELSE IF 14 <= StartHour(sh) /\ StartHour(sh) < 22 THEN "evening"
  ELSE "night"

DN_GetShiftType(sh) ==
  IF ~sh.has_start THEN "regular"
  ELSE IF 6 <= StartHour(sh) /\ StartHour(sh) < 18
       THEN (IF StartHour(sh) < 14 THEN "day" ELSE "evening")
  ELSE "night"

(***************************************************************************)
(* SchedulingStrategy base helpers (the base class is not among the        *)
(* sources; these follow the specification, sections 3 and 4.1)            *)
(***************************************************************************)
\* reset_assignments(staff, shifts): zero total_hours, clear both lists
ResetHours == [s \in StaffIds |-> IF s \in Range(roster) THEN 0 ELSE total_hours[s]]

ResetAssignedShifts ==
  [s \in StaffIds |-> IF s \in Range(roster) THEN <<>> ELSE assigned_shifts[s]]

ResetAssignedStaff == [i \in 1..Len(shifts) |-> <<>>]

\* generate_summary(staff): the statistics the balance validation reads.
\* average_hours_per_staff is the fraction num / den.
GenerateSummary(hours, ashifts) ==
  LET S == Range(roster)
      n == Len(roster)
      total == SumOver(roster, LAMBDA s : hours[s])
  IN [empty |-> FALSE,
      min_hours |-> IF n = 0 THEN 0 ELSE CHOOSE h \in {hours[s] : s \in S} :
                                            \A s \in S : h <= hours[s],
      max_hours |-> IF n = 0 THEN 0 ELSE CHOOSE h \in {hours[s] : s \in S} :
                                            \A s \in S : h >= hours[s],
      average_hours_per_staff |-> IF n = 0 THEN <<0, 1>> ELSE <<total, n>>,
      staff_with_shifts |-> Cardinality({s \in S : Len(ashifts[s]) > 0}),
      total_shifts_assigned |-> SumOver(roster, LAMBDA s : Len(ashifts[s]))]

\* format_schedule(shifts): per-shift listing of times and assigned staff ids
FormatSchedule(astaff) ==
  [i \in 1..Len(shifts) |->
     [start_time |-> shifts[i].start_time, end_time |-> shifts[i].end_time,
      staff |-> astaff[i]]]

(***************************************************************************)
(* Operations shared by both strategies                                    *)
(***************************************************************************)
\* mutant: the slice is one too long
NeededOffByOne(i) == shifts[i].required_staff - Len(assigned_staff[i]) + 1

\* needed = required_staff - len(assigned_staff)
Needed(i) == shifts[i].required_staff - Len(assigned_staff[i])

\* mutant: the duration is not added
HoursAfterAssignNoAdd(s, i) == total_hours[s]

\* _assign_shift: staff.total_hours += duration
HoursAfterAssign(s, i) == total_hours[s] + ShiftDuration(shifts[i])

\* mutant: the duration is added to every staff member's hours
AssignShiftEveryone(s, i) ==
  /\ assigned_staff' = [assigned_staff EXCEPT ![i] = Append(@, s)]
  /\ assigned_shifts' = [assigned_shifts EXCEPT ![s] = Append(@, i)]
  /\ total_hours' = [t \in StaffIds |-> total_hours[t] + ShiftDuration(shifts[i])]

\* mutant: the shift's assigned_staff is overwritten, not appended to
AssignShiftOverwrite(s, i) ==
  /\ assigned_staff' = [assigned_staff EXCEPT ![i] = <<s>>]
  /\ assigned_shifts' = [assigned_shifts EXCEPT ![s] = Append(@, i)]
  /\ total_hours' = [total_hours EXCEPT ![s] = HoursAfterAssign(s, i)]

\* _assign_shift(staff, shift): append on both sides, add the duration
AssignShift(s, i) ==
  /\ assigned_staff' = [assigned_staff EXCEPT ![i] = Append(@, s)]
  /\ assigned_shifts' = [assigned_shifts EXCEPT ![s] = Append(@, i)]
  /\ total_hours' = [total_hours EXCEPT ![s] = HoursAfterAssign(s, i)]

NoAssign == UNCHANGED <<assigned_staff, assigned_shifts, total_hours>>

MaxMinutes(s) == GetPreferences(s).max_hours_per_week * MinutesPerHour

(***************************************************************************)
(* PreferenceBasedStrategy                                                 *)
(***************************************************************************)
\* mutant: the weekday is not checked
PBS_CanWorkShiftAnyDay(s, i) ==
  /\ shifts[i].has_start
  /\ ~(shifts[i].required_skills # {}
       /\ ~(shifts[i].required_skills \subseteq GetPreferences(s).skills))

PBS_CanWorkShift(s, i) ==
  /\ shifts[i].has_start
  /\ Weekday(shifts[i]) \notin GetPreferences(s).unavailable_days
  /\ ~(shifts[i].required_skills # {}
       /\ ~(shifts[i].required_skills \subseteq GetPreferences(s).skills))

\* mutant: a preferred shift type earns nothing
PBS_PreferenceScoreNoBonus(s, day, shift_type) ==
  IF day \in GetPreferences(s).unavailable_days THEN -10 ELSE 0

PBS_PreferenceScore(s, day, shift_type) ==
  (IF shift_type \in GetPreferences(s).preferred_shift_types THEN 3 ELSE 0)
  + (IF day \in GetPreferences(s).unavailable_days THEN -10 ELSE 0)

\* sorted(shifts, key=start_time or datetime.min)
PBS_StartKey(i) == IF shifts[i].has_start THEN shifts[i].start_time ELSE -1

PBS_SortedShifts ==
  StableSort([i \in 1..Len(shifts) |-> i],
             LAMBDA a, b : PBS_StartKey(a) < PBS_StartKey(b))

\* mutant: a member at the cap is still a candidate
PBS_UnderCapInclusive(s) == total_hours[s] <= MaxMinutes(s)

\* current_hours < max_hours: the candidate is still under the cap
PBS_UnderCap(s) == total_hours[s] < MaxMinutes(s)

\* the candidates of one shift, sorted by (-score, current hours)
PBS_Candidates(i) ==
  LET day == IF shifts[i].has_start THEN Weekday(shifts[i]) ELSE 0
      ty == PBS_GetShiftType(shifts[i])
      eligible == FilterSeq(roster, LAMBDA s : PBS_CanWorkShift(s, i) /\ PBS_UnderCap(s))
      score(s) == PBS_PreferenceScore(s, day, ty)
  IN StableSort(eligible,
                LAMBDA a, b : \/ score(a) > score(b)
                              \/ score(a) = score(b) /\ total_hours[a] < total_hours[b])

\* _calculate_overall_preference_score(staff), as the fraction num / den
PBS_OverallPreferenceScore(ashifts) ==
  LET withShifts == FilterSeq(roster, LAMBDA s : Len(ashifts[s]) > 0)
      cnt(s) == Cardinality({k \in 1..Len(ashifts[s]) :
                   PBS_GetShiftType(shifts[ashifts[s][k]])
                     \in GetPreferences(s).preferred_shift_types})
      acc[k \in 0..Len(withShifts)] ==
        IF k = 0 THEN <<0, 1>>
        ELSE LET s == withShifts[k]
             IN <<acc[k-1][1] * Len(ashifts[s]) + 100 * cnt(s) * acc[k-1][2],
                  acc[k-1][2] * Len(ashifts[s])>>
      tot == acc[Len(withShifts)]
  IN IF Len(withShifts) = 0 THEN <<0, 1>> ELSE <<tot[1], tot[2] * Len(withShifts)>>

PBS_CreateScheduleResult(hours, ashifts, astaff) ==
  [kind |-> "result", strategy |-> "Preference Based",
   schedule |-> FormatSchedule(astaff),
   summary |-> GenerateSummary(hours, ashifts),
   score_key |-> "preference_score",
   score_value |-> PBS_OverallPreferenceScore(ashifts)]

dnLocals == <<day_shifts, night_shifts, day_staff, night_staff, neutral_staff>>
hist == <<previous, preempted, other>>
untouched == <<prefs, roster, shifts, carried, hist, autoVars, valVars, clockVars>>

\* mutant: the assignment state is not reset
PBS_BeginNoReset ==
  /\ pc = "begin" /\ strategy = "PreferenceBasedStrategy"
  /\ NoAssign
  /\ order' = PBS_SortedShifts
  /\ idx' = 1
  /\ cands' = <<>>
  /\ pc' = "pbs_loop"
  /\ UNCHANGED <<untouched, strategy, dnLocals, result>>

\* generate_schedule, lines 9-32: reset, snapshot the preferences, sort the shifts
PBS_Begin ==
  /\ pc = "begin" /\ strategy = "PreferenceBasedStrategy"
  /\ total_hours' = ResetHours
  /\ assigned_shifts' = ResetAssignedShifts
  /\ assigned_staff' = ResetAssignedStaff
  /\ order' = PBS_SortedShifts
  /\ idx' = 1
  /\ cands' = <<>>
  /\ pc' = "pbs_loop"
  /\ UNCHANGED <<untouched, strategy, dnLocals, result>>

\* lines 34-57: one shift of the loop: needed, the sorted candidates, the slice
PBS_Shift ==
  /\ pc = "pbs_loop" /\ idx <= Len(order)
  /\ LET i == order[idx]
         chosen == IF Needed(i) <= 0 THEN <<>> ELSE Take(PBS_Candidates(i), Needed(i))
     IN /\ cands' = chosen
        /\ IF chosen = <<>> THEN idx' = idx + 1 /\ pc' = pc
           ELSE idx' = idx /\ pc' = "pbs_assign"
  /\ NoAssign
  /\ UNCHANGED <<untouched, strategy, order, dnLocals, result>>

\* lines 59-60: one iteration of `for person, score, hours in candidates[:needed]`
PBS_Assign ==
  /\ pc = "pbs_assign" /\ cands # <<>>
  /\ AssignShift(Head(cands), order[idx])
  /\ cands' = Tail(cands)
  /\ IF Tail(cands) = <<>> THEN idx' = idx + 1 /\ pc' = "pbs_loop"
     ELSE idx' = idx /\ pc' = pc
  /\ UNCHANGED <<untouched, strategy, order, dnLocals, result>>

\* line 62; the locals of the call end with it
PBS_Return ==
  /\ pc = "pbs_loop" /\ idx > Len(order)
  /\ result' = PBS_CreateScheduleResult(total_hours, assigned_shifts, assigned_staff)
  /\ pc' = "done"
  /\ order' = <<>> /\ idx' = 1
  /\ NoAssign
  /\ UNCHANGED <<untouched, strategy, cands, dnLocals>>

(***************************************************************************)
(* DayNightDistributeStrategy                                              *)
(***************************************************************************)
DN_CanWorkShift(s, i) ==
  /\ shifts[i].has_start
  /\ Weekday(shifts[i]) \notin GetPreferences(s).unavailable_days
  /\ shifts[i].required_skills \subseteq GetPreferences(s).skills

\* the bucket test of generate_schedule, lines 15-19
DN_IsDayBucket(sh) == DN_GetShiftType(sh) \in {"morning", "evening"}

DN_DayShifts == FilterSeq([i \in 1..Len(shifts) |-> i], LAMBDA i : DN_IsDayBucket(shifts[i]))

DN_NightShifts == FilterSeq([i \in 1..Len(shifts) |-> i], LAMBDA i : ~DN_IsDayBucket(shifts[i]))

DN_DayPref(s) == GetPreferences(s).preferred_shift_types \cap {"morning", "evening"} # {}

DN_NightPref(s) == "night" \in GetPreferences(s).preferred_shift_types

DN_DayStaff == FilterSeq(roster, LAMBDA s : DN_DayPref(s) /\ ~DN_NightPref(s))

DN_NightStaff == FilterSeq(roster, LAMBDA s : DN_NightPref(s) /\ ~DN_DayPref(s))

DN_NeutralStaff == FilterSeq(roster, LAMBDA s : DN_DayPref(s) = DN_NightPref(s))

\* candidates of one shift: the pool, filtered by eligibility, sorted by hours
DN_Candidates(pool, i) ==
  StableSort(FilterSeq(pool, LAMBDA s : DN_CanWorkShift(s, i)),
             LAMBDA a, b : total_hours[a] < total_hours[b])

\* _assign_if_available: current_hours + shift_hours <= max_hours
DN_FitsCap(s, i) == total_hours[s] + ShiftDuration(shifts[i]) <= MaxMinutes(s)

\* _calculate_distribution_score, as the fraction num / den
DN_DistributionScore(d, n, ds, ns) ==
  IF d + n = 0 \/ ds + ns = 0 THEN <<0, 1>>
  ELSE LET den == (ds + ns) * (d + n)
           dev == Abs(ds * (d + n) - d * (ds + ns))
       IN <<IF 100 * den - 200 * dev < 0 THEN 0 ELSE 100 * den - 200 * dev, den>>

DN_CreateScheduleResult(hours, ashifts, astaff) ==
  LET d == Cardinality({i \in 1..Len(shifts) :
             DN_GetShiftType(shifts[i]) \in {"day", "evening"} /\ astaff[i] # <<>>})
      n == Cardinality({i \in 1..Len(shifts) :
             DN_GetShiftType(shifts[i]) = "night" /\ astaff[i] # <<>>})
  IN [kind |-> "result", strategy |-> "Day/Night Distribution",
      schedule |-> FormatSchedule(astaff),
      summary |-> GenerateSummary(hours, ashifts),
      day_staff_count |-> Len(day_staff), night_staff_count |-> Len(night_staff),
      day_shifts_assigned |-> d, night_shifts_assigned |-> n,
      score_key |-> "distribution_score",
      score_value |-> DN_DistributionScore(d, n, Len(day_staff), Len(night_staff))]

\* generate_schedule, lines 9-42: reset, bucket the shifts, group the staff
DN_Begin ==
  /\ pc = "begin" /\ strategy = "DayNightDistributeStrategy"
  /\ total_hours' = ResetHours
  /\ assigned_shifts' = ResetAssignedShifts
  /\ assigned_staff' = ResetAssignedStaff
  /\ day_shifts' = DN_DayShifts
  /\ night_shifts' = DN_NightShifts
  /\ day_staff' = DN_DayStaff
  /\ night_staff' = DN_NightStaff
  /\ neutral_staff' = DN_NeutralStaff
  /\ idx' = 1
  /\ cands' = <<>>
  /\ pc' = "dn_day"
  /\ UNCHANGED <<untouched, strategy, order, result>>

\* one shift of a bucket's loop: needed, candidates, the slice candidates[:needed]
DN_ShiftOf(bucket, pool, here, assign, next) ==
  /\ pc = here
  /\ IF idx > Len(bucket)
     THEN /\ pc' = next /\ idx' = 1 /\ cands' = <<>>
     ELSE LET i == bucket[idx]
              chosen == IF Needed(i) <= 0 THEN <<>>
                        ELSE Take(DN_Candidates(pool, i), Needed(i))
          IN /\ cands' = chosen
             /\ IF chosen = <<>> THEN idx' = idx + 1 /\ pc' = pc
                ELSE idx' = idx /\ pc' = assign
  /\ NoAssign
  /\ UNCHANGED <<untouched, strategy, order, dnLocals, result>>

\* one iteration of `for person in candidates[:needed]`
DN_AssignOf(bucket, here, loop) ==
  /\ pc = here /\ cands # <<>>
  /\ LET s == Head(cands)
         i == bucket[idx]
     IN IF DN_FitsCap(s, i)
        THEN /\ AssignShift(s, i)
             /\ neutral_staff' = RemoveFirst(neutral_staff, s)
        ELSE /\ NoAssign
             /\ neutral_staff' = neutral_staff
  /\ cands' = Tail(cands)
  /\ IF Tail(cands) = <<>> THEN idx' = idx + 1 /\ pc' = loop
     ELSE idx' = idx /\ pc' = pc
  /\ UNCHANGED <<untouched, strategy, order, day_shifts, night_shifts,
                 day_staff, night_staff, result>>

\* lines 44-61: the day loop
DN_DayShift == DN_ShiftOf(day_shifts, day_staff \o neutral_staff, "dn_day", "dn_day_assign", "dn_night")

DN_DayAssign == DN_AssignOf(day_shifts, "dn_day_assign", "dn_day")

\* lines 63-78: the night loop
DN_NightShift == DN_ShiftOf(night_shifts, night_staff \o neutral_staff, "dn_night", "dn_night_assign", "dn_return")

DN_NightAssign == DN_AssignOf(night_shifts, "dn_night_assign", "dn_night")

\* line 80; the locals of the call end with it
DN_Return ==
  /\ pc = "dn_return"
  /\ result' = DN_CreateScheduleResult(total_hours, assigned_shifts, assigned_staff)
  /\ pc' = "done"
  /\ day_shifts' = <<>> /\ night_shifts' = <<>>
  /\ day_staff' = <<>> /\ night_staff' = <<>> /\ neutral_staff' = <<>>
  /\ NoAssign
  /\ UNCHANGED <<untouched, strategy, order, idx, cands>>

(***************************************************************************)
(* The registries: ScheduleClient.strategies and Scheduler.strategies      *)
(***************************************************************************)
NoResult == [kind |-> "none"]

ClientStrategies ==
  {"even-distribute", "minimize-days", "preference-based", "day-night-distribute"}

SchedulerStrategies ==
  {"even_distribute", "minimize_days", "shift_type_optimize", "preference_based",
   "day_night_distribute"}

StrategyClass(name) ==
  CASE name \in {"preference-based", "preference_based"} -> "PreferenceBasedStrategy"
    [] name \in {"day-night-distribute", "day_night_distribute"} -> "DayNightDistributeStrategy"
    [] OTHER -> "NotModelled"

\* an exception: its text, and for an unknown strategy the name and the names listed
Error(text) ==
  [kind |-> "error", text |-> text, name |-> "", lists_available |-> FALSE,
   available |-> {}]

\* ScheduleClient.generate_schedule raises ValueError(f"Unknown strategy: {name}")
ClientUnknownStrategy(name) ==
  [kind |-> "error", text |-> "Unknown strategy", name |-> name,
   lists_available |-> FALSE, available |-> {}]

\* Scheduler.generate_schedule raises
\* ValueError(f"Unknown strategy: {name}. Available strategies: {available}")
SchedulerUnknownStrategy(name) ==
  [kind |-> "error", text |-> "Unknown strategy", name |-> name,
   lists_available |-> TRUE, available |-> SchedulerStrategies]

\* the strategy names the calls are made with: the two strategies whose source
\* is present, under both registries' spellings, and an unregistered name
ClientNames == {"preference-based", "day-night-distribute", "no-such-strategy"}

SchedulerNames == {"preference_based", "day_night_distribute", "no-such-strategy"}

\* no run precedes the call
NoPrevious ==
  [kind |-> "none", strategy |-> "none", result |-> NoResult, total_hours |-> <<>>,
   assigned_shifts |-> <<>>, assigned_staff |-> <<>>, preempted |-> FALSE]

\* what a finished run left: its strategy, its ScheduleResult, and the assignment
\* state of its staff (in roster order) and of its shifts
FinishedRun ==
  [kind |-> "run", strategy |-> strategy, result |-> result,
   total_hours |-> [k \in 1..Len(roster) |-> total_hours[roster[k]]],
   assigned_shifts |-> [k \in 1..Len(roster) |-> assigned_shifts[roster[k]]],
   assigned_staff |-> assigned_staff, preempted |-> preempted]

runLocals == <<order, idx, cands, dnLocals>>
callFrame == <<prefs, roster, shifts, other, autoVars, valVars, clockVars>>
objects == <<total_hours, assigned_shifts, assigned_staff>>

\* ScheduleClient.generate_schedule(strategy_name, staff, shifts, ...)
ClientGenerateSchedule(name) ==
  /\ pc \in {"idle", "done", "raised"}
  /\ IF name \notin ClientStrategies
     THEN /\ pc' = "raised"
          /\ result' = ClientUnknownStrategy(name)
          /\ strategy' = strategy
     ELSE /\ pc' = "begin"
          /\ strategy' = StrategyClass(name)
          /\ result' = NoResult
  /\ carried' = (\E s \in Range(roster) : assigned_shifts[s] # <<>>)
  /\ previous' = (IF pc = "done" /\ strategy' = strategy THEN FinishedRun ELSE NoPrevious)
  /\ preempted' = FALSE
  /\ UNCHANGED <<callFrame, objects, runLocals>>

\* Scheduler.generate_schedule(strategy_name, staff, shifts, ...)
SchedulerGenerateSchedule(name) ==
  /\ pc \in {"idle", "done", "raised"}
  /\ IF name \notin SchedulerStrategies
     THEN /\ pc' = "raised"
          /\ result' = SchedulerUnknownStrategy(name)
          /\ strategy' = strategy
     ELSE /\ pc' = "begin"
          /\ strategy' = StrategyClass(name)
          /\ result' = NoResult
  /\ carried' = (\E s \in Range(roster) : assigned_shifts[s] # <<>>)
  /\ previous' = (IF pc = "done" /\ strategy' = strategy THEN FinishedRun ELSE NoPrevious)
  /\ preempted' = FALSE
  /\ UNCHANGED <<callFrame, objects, runLocals>>

(***************************************************************************)
(* ScheduleClient: balance validation                                      *)
(***************************************************************************)
HourDifferenceLimit == 20

EmptySummary ==
  [empty |-> TRUE, min_hours |-> 0, max_hours |-> 0, average_hours_per_staff |-> <<0, 1>>,
   staff_with_shifts |-> 0, total_shifts_assigned |-> 0]

\* mutant: a difference of exactly 20 hours fails too
TooUnbalancedAtLeast(summary) ==
  summary.max_hours - summary.min_hours >= HourDifferenceLimit * MinutesPerHour

\* max_hours - min_hours > 20
TooUnbalanced(summary) ==
  summary.max_hours - summary.min_hours > HourDifferenceLimit * MinutesPerHour

\* total_shifts_assigned < staff_count
NotEnoughShifts(summary, staff_count) == summary.total_shifts_assigned < staff_count

\* max_hours > average_hours_per_staff * 1.5, the average being num / den
TooUneven(summary) ==
  2 * summary.max_hours * summary.average_hours_per_staff[2]
    > 3 * summary.average_hours_per_staff[1]

\* _validate_schedule_results: "ok" when it returns, else the ValueError it raises
ValidateScheduleResults(summary, staff_count) ==
  IF summary.empty THEN "ok"
  ELSE IF TooUnbalanced(summary)
       THEN "Schedule too unbalanced - hour difference exceeds 20 hours"
  ELSE IF NotEnoughShifts(summary, staff_count)
       THEN "Not enough shifts assigned - some staff may have no shifts"
  ELSE IF TooUneven(summary)
       THEN "Schedule distribution too uneven"
  ELSE "ok"

\* one call of _validate_schedule_results on its own
Validate ==
  /\ v_outcome = "pending"
  /\ v_outcome' = ValidateScheduleResults(v_summary, v_count)
  /\ UNCHANGED <<stratVars, autoVars, v_summary, v_count, clockVars>>

(***************************************************************************)
(* ScheduleClient: catalog generation                                      *)
(***************************************************************************)
\* mutant: every slot of the mixed catalog is the morning slot
GetShiftTimesAllMorning(date, shift_num, shift_type) ==
  LET base == date * MinutesPerDay
  IN IF shift_type = "day"
     THEN LET start_hour == 8 + shift_num
          IN [ok |-> start_hour + 8 <= 23,
              start |-> base + start_hour * MinutesPerHour,
              end |-> base + (start_hour + 8) * MinutesPerHour]
     ELSE IF shift_type = "night"
     THEN LET start_hour == 22 + shift_num
          IN [ok |-> start_hour <= 23,
              start |-> base + start_hour * MinutesPerHour,
              end |-> (date + 1) * MinutesPerDay + ((start_hour + 8) % 24) * MinutesPerHour]
     ELSE [ok |-> TRUE, start |-> base + 8 * MinutesPerHour,
           end |-> base + 16 * MinutesPerHour]

\* _get_shift_times: ok = FALSE when datetime.replace(hour=...) raises ValueError
GetShiftTimes(date, shift_num, shift_type) ==
  LET base == date * MinutesPerDay
  IN IF shift_type = "day"
     THEN LET start_hour == 8 + shift_num
          IN [ok |-> start_hour + 8 <= 23,
              start |-> base + start_hour * MinutesPerHour,
              end |-> base + (start_hour + 8) * MinutesPerHour]
     ELSE IF shift_type = "night"
     THEN LET start_hour == 22 + shift_num
          IN [ok |-> start_hour <= 23,
              start |-> base + start_hour * MinutesPerHour,
              end |-> (date + 1) * MinutesPerDay + ((start_hour + 8) % 24) * MinutesPerHour]
     ELSE IF shift_num = 0
          THEN [ok |-> TRUE, start |-> base + 8 * MinutesPerHour,
                end |-> base + 16 * MinutesPerHour]
          ELSE [ok |-> TRUE, start |-> base + 16 * MinutesPerHour,
                end |-> base + 23 * MinutesPerHour + 59]

\* MockShift(start_time, end_time); its shift_type tag is read by no strategy
MockShift(times) ==
  [has_start |-> TRUE, start_time |-> times.start, end_time |-> times.end,
   duration_hours |-> times.end - times.start, required_staff |-> 1,
   required_skills |-> {}]

\* the (date, shift_num) slots in generation order
CatalogSlots(start_date, end_date, shifts_per_day) ==
  [k \in 1..((end_date - start_date + 1) * shifts_per_day) |->
     [date |-> start_date + (k - 1) \div shifts_per_day,
      shift_num |-> (k - 1) % shifts_per_day]]

\* _generate_shifts_for_period: the catalog, or ok = FALSE when a slot raises
GenerateShiftsForPeriod(start_date, end_date, shifts_per_day, shift_type) ==
  LET slots == CatalogSlots(start_date, end_date, shifts_per_day)
      times(k) == GetShiftTimes(slots[k].date, slots[k].shift_num, shift_type)
  IN [ok |-> \A k \in 1..Len(slots) : times(k).ok,
      shifts |-> [k \in 1..Len(slots) |-> MockShift(times(k))]]

(***************************************************************************)
(* ScheduleClient: persistence steps                                       *)
(***************************************************************************)
\* mutant: the query does not filter by schedule
ClearQueryAnySchedule(schedule_id, start_date, end_date) ==
  {r \in db : /\ r.start_time >= start_date * MinutesPerDay
              /\ r.start_time <= end_date * MinutesPerDay + (MinutesPerDay - 1)}

\* the query of _clear_existing_shifts: schedule_id and start_time in
\* [combine(start_date, time.min), combine(end_date, time.max)]
ClearQuery(schedule_id, start_date, end_date) ==
  {r \in db : /\ r.schedule_id = schedule_id
              /\ r.start_time >= start_date * MinutesPerDay
              /\ r.start_time <= end_date * MinutesPerDay + (MinutesPerDay - 1)}

\* the committed (staff, shift) pairs in the order of the save loop
AssignedPairs ==
  LET f[i \in 0..Len(shifts)] ==
        IF i = 0 THEN <<>>
        ELSE f[i-1] \o [k \in 1..Len(assigned_staff[i]) |->
                          [staff_id |-> assigned_staff[i][k], shift |-> i]]
  IN f[Len(shifts)]

\* mutant: the first committed pair is not saved
NewRowsSkipFirst(schedule_id) ==
  {[id |-> next_id + k - 1, schedule_id |-> schedule_id,
    staff_id |-> AssignedPairs[k].staff_id,
    start_time |-> shifts[AssignedPairs[k].shift].start_time,
    end_time |-> shifts[AssignedPairs[k].shift].end_time] : k \in 2..Len(AssignedPairs)}

\* the rows _save_shifts_to_db adds to the session
NewRows(schedule_id) ==
  {[id |-> next_id + k - 1, schedule_id |-> schedule_id,
    staff_id |-> AssignedPairs[k].staff_id,
    start_time |-> shifts[AssignedPairs[k].shift].start_time,
    end_time |-> shifts[AssignedPairs[k].shift].end_time] : k \in 1..Len(AssignedPairs)}

\* _get_assignments_list
GetAssignmentsList ==
  [k \in 1..Len(AssignedPairs) |->
     [staff_id |-> AssignedPairs[k].staff_id,
      start_time |-> shifts[AssignedPairs[k].shift].start_time,
      end_time |-> shifts[AssignedPairs[k].shift].end_time]]

\* result.get('score', 0)
ResultGetScore(r) == IF r.score_key = "score" THEN r.score_value ELSE <<0, 1>>

(***************************************************************************)
(* ScheduleClient.auto_populate                                            *)
(***************************************************************************)
NoOutcome == [kind |-> "none", success |-> FALSE, message |-> Error("")]

\* a ValueError that leaves auto_populate
Raised(text) == [kind |-> "raised", success |-> FALSE, message |-> Error(text)]

\* the except branch: db.session.rollback() and the failure dict
\* "Failed to auto-generate schedule: {str(e)}"
Failure(cause) == [kind |-> "returned", success |-> FALSE, message |-> cause]

FailWith(cause) ==
  /\ session_new' = {}
  /\ session_deleted' = {}
  /\ outcome' = Failure(cause)
  /\ apc' = "returned"

apLocals == <<deleted_count, shifts_created>>
run == <<strategy, pc, order, idx, cands, dnLocals, result, carried>>

\* lines 29-42: the call and its input validation, outside the try block
AP_Call(a) ==
  /\ apc = "idle"
  /\ args' = a
  /\ db0' = db
  /\ IF a.staff_list = <<>>
     THEN apc' = "raised" /\ outcome' = Raised("Staff list cannot be empty")
     ELSE IF a.start_date > a.end_date
     THEN apc' = "raised" /\ outcome' = Raised("Start date must be before end date")
     ELSE IF a.shifts_per_day <= 0
     THEN apc' = "raised" /\ outcome' = Raised("Shifts per day must be positive")
     ELSE apc' = "clear" /\ outcome' = outcome
  /\ UNCHANGED <<hist, prefs, roster, shifts, objects, run, db, session_new, session_deleted,
                 next_id, apLocals, valVars, clockVars>>

\* _clear_existing_shifts, lines 118-128: query and db.session.delete
AP_ClearMark ==
  /\ apc = "clear"
  /\ session_deleted' =
       {r.id : r \in ClearQuery(args.schedule_id, args.start_date, args.end_date)}
  /\ apc' = "clear_commit"
  /\ UNCHANGED <<hist, prefs, roster, shifts, objects, run, db, session_new, next_id, args, db0,
                 apLocals, outcome, valVars, clockVars>>

\* _clear_existing_shifts, lines 129-131: db.session.commit() succeeds
AP_ClearCommit ==
  /\ apc = "clear_commit"
  /\ db' = {r \in db : r.id \notin session_deleted}
  /\ deleted_count' = Cardinality(session_deleted)
  /\ session_deleted' = {}
  /\ apc' = "generate"
  /\ UNCHANGED <<hist, prefs, roster, shifts, objects, run, session_new, next_id, args, db0,
                 shifts_created, outcome, valVars, clockVars>>

\* db.session.commit() of the clear step raises: lines 78-83
AP_ClearCommitFails ==
  /\ apc = "clear_commit"
  /\ FailWith(Error("commit failed"))
  /\ UNCHANGED <<hist, prefs, roster, shifts, objects, run, db, next_id, args, db0,
                 apLocals, valVars, clockVars>>

\* line 49: the catalog, or the ValueError of datetime.replace
AP_Generate ==
  /\ apc = "generate"
  /\ LET cat == GenerateShiftsForPeriod(args.start_date, args.end_date,
                                        args.shifts_per_day, args.shift_type)
     IN IF cat.ok
        THEN /\ shifts' = cat.shifts
             /\ assigned_staff' = [i \in 1..Len(cat.shifts) |-> <<>>]
             /\ apc' = "dispatch"
             /\ UNCHANGED <<session_new, session_deleted, outcome>>
        ELSE /\ FailWith(Error("hour must be in 0..23"))
             /\ UNCHANGED <<shifts, assigned_staff>>
  /\ UNCHANGED <<hist, prefs, roster, total_hours, assigned_shifts, run, db, next_id, args, db0,
                 apLocals, valVars, clockVars>>

\* lines 52-58: self.generate_schedule(strategy_name, staff_list, shifts, ...)
AP_CallStrategy ==
  /\ apc = "dispatch"
  /\ roster' = args.staff_list
  /\ IF args.strategy_name \notin ClientStrategies
     THEN /\ FailWith(ClientUnknownStrategy(args.strategy_name))
          /\ UNCHANGED <<strategy, pc, carried>>
     ELSE /\ pc' = "begin"
          /\ strategy' = StrategyClass(args.strategy_name)
          /\ carried' = (\E s \in Range(args.staff_list) : assigned_shifts[s] # <<>>)
          /\ apc' = "strategy"
          /\ UNCHANGED <<session_new, session_deleted, outcome>>
  /\ UNCHANGED <<hist, prefs, shifts, objects, runLocals, result, db, next_id, args, db0,
                 apLocals, valVars, clockVars>>

\* _save_shifts_to_db, lines 135-156: one db.session.add per committed pair
AP_SaveAdd ==
  /\ apc = "strategy" /\ pc = "done"
  /\ session_new' = NewRows(args.schedule_id)
  /\ shifts_created' = Len(AssignedPairs)
  /\ apc' = "save_commit"
  /\ UNCHANGED <<hist, prefs, roster, shifts, objects, run, db, session_deleted, next_id, args,
                 db0, deleted_count, outcome, valVars, clockVars>>

\* _save_shifts_to_db, lines 158-160: db.session.commit() succeeds
AP_SaveCommit ==
  /\ apc = "save_commit"
  /\ db' = db \cup session_new
  /\ next_id' = next_id + Cardinality(session_new)
  /\ session_new' = {}
  /\ apc' = "validate"
  /\ UNCHANGED <<hist, prefs, roster, shifts, objects, run, session_deleted, args, db0,
                 apLocals, outcome, valVars, clockVars>>

\* lines 161-163 and 78-83: the commit raises, rollback, re-raise, failure dict
AP_SaveCommitFails ==
  /\ apc = "save_commit"
  /\ FailWith(Error("commit failed"))
  /\ UNCHANGED <<hist, prefs, roster, shifts, objects, run, db, next_id, args, db0,
                 apLocals, valVars, clockVars>>

\* lines 63-83: balance validation, then the success dict or the failure dict
AP_ValidateAndReturn ==
  /\ apc = "validate"
  /\ LET summary == result.summary
         verdict == ValidateScheduleResults(summary, Len(args.staff_list))
     IN IF verdict = "ok"
        THEN /\ outcome' = [kind |-> "returned", success |-> TRUE,
                            schedule_id |-> args.schedule_id,
                            shifts_created |-> shifts_created,
                            shifts_deleted |-> deleted_count,
                            score |-> ResultGetScore(result),
                            summary |-> summary,
                            assignments |-> GetAssignmentsList,
                            strategy_used |-> args.strategy_name]
             /\ apc' = "returned"
             /\ UNCHANGED <<session_new, session_deleted>>
        ELSE FailWith(Error(verdict))
  /\ UNCHANGED <<hist, prefs, roster, shifts, objects, run, db, next_id, args, db0,
                 apLocals, valVars, clockVars>>

(***************************************************************************)
(* Inputs of the direct strategy runs                                      *)
(***************************************************************************)
PrefChoices ==
  { DefaultPrefs,
    [found |-> TRUE, preferred_shift_types |-> {"night"}, unavailable_days |-> {},
     max_hours_per_week |-> 12, skills |-> {"first_aid"}],
    [found |-> TRUE, preferred_shift_types |-> {"morning"}, unavailable_days |-> {0},
     max_hours_per_week |-> 40, skills |-> {}],
    [found |-> TRUE, preferred_shift_types |-> {"evening", "night"}, unavailable_days |-> {},
     max_hours_per_week |-> 8, skills |-> {}] }

MkShift(day, h1, m1, len, req, skills) ==
  [has_start |-> TRUE,
   start_time |-> day * MinutesPerDay + h1 * MinutesPerHour + m1,
   end_time |-> day * MinutesPerDay + h1 * MinutesPerHour + m1 + len,
   duration_hours |-> len, required_staff |-> req, required_skills |-> skills]

ShiftChoices ==
  { MkShift(0, 8, 0, 480, 1, {}),
    MkShift(0, 16, 0, 479, 2, {}),
    MkShift(1, 22, 0, 480, 1, {"first_aid"}),
    MkShift(1, 8, 0, 480, 0, {}),
    [has_start |-> FALSE, start_time |-> 0, end_time |-> 0, duration_hours |-> 480,
     required_staff |-> 1, required_skills |-> {}] }

Rosters == {[i \in 1..n |-> i] : n \in 0..NStaff}

ShiftLists == UNION {[1..k -> ShiftChoices] : k \in 0..MaxShifts}

\* there is no second invocation
NoOther == [kind |-> "none"]

InitRun ==
  /\ total_hours = [s \in StaffIds |-> 0]
  /\ assigned_shifts = [s \in StaffIds |-> <<>>]
  /\ assigned_staff = [i \in 1..Len(shifts) |-> <<>>]
  /\ strategy = "none"
  /\ pc = "idle"
  /\ order = <<>>
  /\ idx = 1
  /\ cands = <<>>
  /\ day_shifts = <<>>
  /\ night_shifts = <<>>
  /\ day_staff = <<>>
  /\ night_staff = <<>>
  /\ neutral_staff = <<>>
  /\ result = NoResult
  /\ carried = FALSE
  /\ previous = NoPrevious
  /\ preempted = FALSE
  /\ other = NoOther

NoArgs ==
  [schedule_id |-> "none", strategy_name |-> "none", staff_list |-> <<>>, start_date |-> 0,
   end_date |-> 0, shifts_per_day |-> 0, shift_type |-> "none"]

\* no auto_populate call is made
InitNoAuto ==
  /\ db = {}
  /\ session_new = {}
  /\ session_deleted = {}
  /\ next_id = 1
  /\ apc = "off"
  /\ args = NoArgs
  /\ db0 = {}
  /\ deleted_count = 0
  /\ shifts_created = 0
  /\ outcome = NoOutcome

\* no clock_in / clock_out call is made
NoCall == [op |-> "none", staff_id |-> 0, shift_id |-> 0, outcome |-> "none"]

InitNoClock ==
  /\ shift_table = <<>>
  /\ shift_table_before = <<>>
  /\ last_call = NoCall

\* no separate validation call is made
InitNoValidate ==
  /\ v_summary = EmptySummary
  /\ v_count = 0
  /\ v_outcome = "off"

(***************************************************************************)
(* Spec: generate_schedule called directly, any number of times, on one    *)
(* staff / shift object graph                                              *)
(***************************************************************************)
Init ==
  /\ roster \in Rosters
  /\ prefs \in [StaffIds -> PrefChoices]
  /\ \A s \in StaffIds : s \notin Range(roster) => prefs[s] = DefaultPrefs
  /\ shifts \in ShiftLists
  /\ InitRun
  /\ InitNoAuto
  /\ InitNoValidate
  /\ InitNoClock

Next ==
  \/ \E name \in ClientNames : ClientGenerateSchedule(name)
  \/ \E name \in SchedulerNames : SchedulerGenerateSchedule(name)
  \/ PBS_Begin
  \/ PBS_Shift
  \/ PBS_Assign
  \/ PBS_Return
  \/ DN_Begin
  \/ DN_DayShift
  \/ DN_DayAssign
  \/ DN_NightShift
  \/ DN_NightAssign
  \/ DN_Return

Spec == Init /\ [][Next]_vars

(***************************************************************************)
(* SpecAuto: one auto_populate call on a database that holds earlier rows  *)
(***************************************************************************)
MaxDate == 1
MaxPerDay == 3

TargetSchedule == "schedule-1"
OtherSchedule == "schedule-2"

\* rows persisted before the call: in the target schedule on day 1, in the target
\* schedule across midnight of day 0, in another schedule, and far after any window
DbRowChoices ==
  { [id |-> 1, schedule_id |-> TargetSchedule, staff_id |-> 1,
     start_time |-> MinutesPerDay + 8 * MinutesPerHour,
     end_time |-> MinutesPerDay + 16 * MinutesPerHour],
    [id |-> 2, schedule_id |-> TargetSchedule, staff_id |-> 2,
     start_time |-> 22 * MinutesPerHour,
     end_time |-> MinutesPerDay + 6 * MinutesPerHour],
    [id |-> 3, schedule_id |-> OtherSchedule, staff_id |-> 1,
     start_time |-> MinutesPerDay + 8 * MinutesPerHour,
     end_time |-> MinutesPerDay + 16 * MinutesPerHour],
    [id |-> 4, schedule_id |-> TargetSchedule, staff_id |-> 1,
     start_time |-> (MaxDate + 3) * MinutesPerDay + 8 * MinutesPerHour,
     end_time |-> (MaxDate + 3) * MinutesPerDay + 16 * MinutesPerHour] }

ArgChoices ==
  [schedule_id : {TargetSchedule}, strategy_name : ClientNames, staff_list : Rosters,
   start_date : 0..MaxDate, end_date : 0..MaxDate, shifts_per_day : 0..MaxPerDay,
   shift_type : {"day", "night", "mixed"}]

\* the preference records of the auto_populate runs: none, and one with an
\* unavailable weekday
AutoPrefChoices == {p \in PrefChoices : p.max_hours_per_week = DefaultMaxHours}

DbChoices == {S \in SUBSET DbRowChoices : Cardinality(S) \in {0, 1, Cardinality(DbRowChoices)}}

InitAuto ==
  /\ roster = <<>>
  /\ shifts = <<>>
  /\ prefs \in [StaffIds -> AutoPrefChoices]
  /\ InitRun
  /\ db \in DbChoices
  /\ session_new = {}
  /\ session_deleted = {}
  /\ next_id = Cardinality(DbRowChoices) + 1
  /\ apc = "idle"
  /\ args = NoArgs
  /\ db0 = {}
  /\ deleted_count = 0
  /\ shifts_created = 0
  /\ outcome = NoOutcome
  /\ InitNoValidate
  /\ InitNoClock

NextAuto ==
  \/ \E a \in ArgChoices : AP_Call(a)
  \/ AP_ClearMark
  \/ AP_ClearCommit
  \/ AP_ClearCommitFails
  \/ AP_Generate
  \/ AP_CallStrategy
  \/ PBS_Begin
  \/ PBS_Shift
  \/ PBS_Assign
  \/ PBS_Return
  \/ DN_Begin
  \/ DN_DayShift
  \/ DN_DayAssign
  \/ DN_NightShift
  \/ DN_NightAssign
  \/ DN_Return
  \/ AP_SaveAdd
  \/ AP_SaveCommit
  \/ AP_SaveCommitFails
  \/ AP_ValidateAndReturn

SpecAuto == InitAuto /\ [][NextAuto]_vars

(***************************************************************************)
(* SpecValidate: _validate_schedule_results on its own                     *)
(***************************************************************************)
MaxCount == 3

HourChoices == {0, 4, 8, 16, 20, 24, 28, 36}

SummaryChoices ==
  {EmptySummary} \cup
  { [empty |-> FALSE, min_hours |-> mn * MinutesPerHour, max_hours |-> mx * MinutesPerHour,
     average_hours_per_staff |-> <<av * MinutesPerHour, 1>>,
     staff_with_shifts |-> 0, total_shifts_assigned |-> t] :
      mn \in HourChoices, mx \in HourChoices, av \in HourChoices, t \in 0..MaxCount }

InitValidate ==
  /\ roster = <<>>
  /\ shifts = <<>>
  /\ prefs = [s \in StaffIds |-> DefaultPrefs]
  /\ InitRun
  /\ InitNoAuto
  /\ v_summary \in {x \in SummaryChoices :
                      x.min_hours <= x.average_hours_per_staff[1]
                      /\ x.average_hours_per_staff[1] <= x.max_hours}
  /\ v_count \in 0..MaxCount
  /\ v_outcome = "pending"
  /\ InitNoClock

NextValidate == Validate

SpecValidate == InitValidate /\ [][NextValidate]_vars

(***************************************************************************)
(* SpecScenarioB: DayNightDistributeStrategy on one night-preferring and   *)
(* one neutral staff member, three night and three day shifts of 8 hours,  *)
(* required_staff = 1, in every order of the shift list                    *)
(***************************************************************************)
StaffB == [night_preferring |-> 1, neutral |-> 2]

NightPreferringB == StaffB.night_preferring

NeutralB == StaffB.neutral

NightPrefsB ==
  [found |-> TRUE, preferred_shift_types |-> {"night"}, unavailable_days |-> {},
   max_hours_per_week |-> DefaultMaxHours, skills |-> {}]

NeutralPrefsB ==
  { DefaultPrefs,
    [found |-> TRUE, preferred_shift_types |-> {}, unavailable_days |-> {},
     max_hours_per_week |-> DefaultMaxHours, skills |-> {}] }

\* the shift lists: position i holds a day ("D") or a night ("N") shift, the k-th
\* shift of each kind on day k-1
ArrangementsB ==
  {f \in [1..6 -> {"D", "N"}] : Cardinality({i \in 1..6 : f[i] = "D"}) = 3}

ShiftListB(f, dayHour, nightHour) ==
  [i \in 1..6 |->
     MkShift(Cardinality({j \in 1..(i-1) : f[j] = f[i]}),
             IF f[i] = "D" THEN dayHour ELSE nightHour, 0, 480, 1, {})]

InitScenarioB ==
  /\ roster \in {<<NightPreferringB, NeutralB>>, <<NeutralB, NightPreferringB>>}
  /\ \E np \in NeutralPrefsB :
       prefs = [s \in StaffIds |-> IF s = NightPreferringB THEN NightPrefsB
                                    ELSE IF s = NeutralB THEN np ELSE DefaultPrefs]
  /\ \E f \in ArrangementsB, dayHour \in {8, 14}, nightHour \in {22, 23} :
       shifts = ShiftListB(f, dayHour, nightHour)
  /\ InitRun
  /\ InitNoAuto
  /\ InitNoValidate
  /\ InitNoClock

NextScenarioB ==
  \/ \E name \in {"day-night-distribute"} : ClientGenerateSchedule(name)
  \/ DN_Begin
  \/ DN_DayShift
  \/ DN_DayAssign
  \/ DN_NightShift
  \/ DN_NightAssign
  \/ DN_Return

SpecScenarioB == InitScenarioB /\ [][NextScenarioB]_vars

(***************************************************************************)
(* SpecScenarioA: PreferenceBasedStrategy on a single staff member without *)
(* stated preferences (cap 40) and n shifts of 8 hours, required_staff = 1,*)
(* with distinct start times, listed in several orders                     *)
(***************************************************************************)
MaxShiftsA == 6

\* the start day of the shift at list position i of n: ascending, descending,
\* or the odd positions' days after the even positions' days
StartDayA(arrangement, n, i) ==
  CASE arrangement = "ascending" -> i - 1
    [] arrangement = "descending" -> n - i
    [] OTHER -> IF i % 2 = 0 THEN (i \div 2) - 1 ELSE (n \div 2) + (i \div 2)

ShiftListA(arrangement, n, hour) ==
  [i \in 1..n |-> MkShift(StartDayA(arrangement, n, i), hour, 0, 480, 1, {})]

InitScenarioA ==
  /\ roster = <<1>>
  /\ \E p \in NeutralPrefsB : prefs = [s \in StaffIds |-> IF s = 1 THEN p ELSE DefaultPrefs]
  /\ \E arrangement \in {"ascending", "descending", "alternating"},
        n \in 0..MaxShiftsA, hour \in {8, 15, 22} :
       shifts = ShiftListA(arrangement, n, hour)
  /\ InitRun
  /\ InitNoAuto
  /\ InitNoValidate
  /\ InitNoClock

NextScenarioA ==
  \/ \E name \in {"preference-based"} : ClientGenerateSchedule(name)
  \/ PBS_Begin
  \/ PBS_Shift
  \/ PBS_Assign
  \/ PBS_Return

SpecScenarioA == InitScenarioA /\ [][NextScenarioA]_vars

(***************************************************************************)
(* SpecDayNight: DayNightDistributeStrategy on staff who prefer the same   *)
(* kind of shift under different hour caps                                 *)
(***************************************************************************)
DayNightPrefChoices ==
  { DefaultPrefs,
    [found |-> TRUE, preferred_shift_types |-> {"night"}, unavailable_days |-> {},
     max_hours_per_week |-> 12, skills |-> {}],
    [found |-> TRUE, preferred_shift_types |-> {"night"}, unavailable_days |-> {},
     max_hours_per_week |-> DefaultMaxHours, skills |-> {}],
    [found |-> TRUE, preferred_shift_types |-> {"evening"}, unavailable_days |-> {},
     max_hours_per_week |-> 12, skills |-> {}] }

DayNightShiftChoices ==
  { MkShift(0, 22, 0, 480, 1, {}),
    MkShift(0, 22, 0, 480, 2, {}),
    MkShift(1, 16, 0, 479, 1, {}) }

InitDayNight ==
  /\ roster \in Rosters
  /\ prefs \in [StaffIds -> DayNightPrefChoices]
  /\ \A s \in StaffIds : s \notin Range(roster) => prefs[s] = DefaultPrefs
  /\ shifts \in UNION {[1..k -> DayNightShiftChoices] : k \in 0..MaxShifts}
  /\ InitRun
  /\ InitNoAuto
  /\ InitNoValidate
  /\ InitNoClock

SpecDayNight == InitDayNight /\ [][NextScenarioB]_vars

(***************************************************************************)
(* SpecRanking: PreferenceBasedStrategy on staff whose preference scores   *)
(* and hours differ, one assignee per shift or two                         *)
(***************************************************************************)
RankingPrefChoices ==
  { DefaultPrefs,
    [found |-> TRUE, preferred_shift_types |-> {"morning"}, unavailable_days |-> {},
     max_hours_per_week |-> DefaultMaxHours, skills |-> {}],
    [found |-> TRUE, preferred_shift_types |-> {"morning", "evening"}, unavailable_days |-> {1},
     max_hours_per_week |-> 8, skills |-> {}] }

RankingShiftChoices ==
  { MkShift(0, 8, 0, 480, 1, {}),
    MkShift(0, 16, 0, 479, 1, {}),
    MkShift(1, 8, 0, 480, 1, {}),
    MkShift(2, 8, 0, 480, 2, {}) }

InitRanking ==
  /\ roster \in Rosters
  /\ prefs \in [StaffIds -> RankingPrefChoices]
  /\ \A s \in StaffIds : s \notin Range(roster) => prefs[s] = DefaultPrefs
  /\ shifts \in UNION {[1..k -> RankingShiftChoices] : k \in 0..MaxShifts}
  /\ InitRun
  /\ InitNoAuto
  /\ InitNoValidate
  /\ InitNoClock

SpecRanking == InitRanking /\ [][NextScenarioA]_vars

(***************************************************************************)
(* SpecConcurrent: two invocations of generate_schedule on one registry,   *)
(* each on its own staff and shift objects, interleaved step by step. The  *)
(* staff objects of both live in total_hours and assigned_shifts; what an  *)
(* invocation holds besides (its arguments, its shifts' assigned_staff,    *)
(* its locals and its result) is its frame. One frame is running, the      *)
(* other is kept in `other`.                                               *)
(***************************************************************************)
\* total_hours and assigned_shifts of the staff of a roster, in roster order
StaffState(r) == [k \in 1..Len(r) |-> <<total_hours[r[k]], assigned_shifts[r[k]]>>]

\* the frame of the running invocation as it is suspended
SuspendedFrame ==
  [kind |-> "frame", roster |-> roster, shifts |-> shifts,
   assigned_staff |-> assigned_staff, strategy |-> strategy, pc |-> pc,
   order |-> order, idx |-> idx, cands |-> cands,
   day_shifts |-> day_shifts, night_shifts |-> night_shifts,
   day_staff |-> day_staff, night_staff |-> night_staff,
   neutral_staff |-> neutral_staff, result |-> result, carried |-> carried,
   previous |-> previous,
   preempted |-> (preempted \/ pc \notin {"idle", "done", "raised"}),
   staff_state |-> StaffState(roster)]

\* the running invocation is suspended and the other one resumed
Switch ==
  /\ other.kind = "frame"
  /\ other' = SuspendedFrame
  /\ roster' = other.roster
  /\ shifts' = other.shifts
  /\ assigned_staff' = other.assigned_staff
  /\ strategy' = other.strategy
  /\ pc' = other.pc
  /\ order' = other.order
  /\ idx' = other.idx
  /\ cands' = other.cands
  /\ day_shifts' = other.day_shifts
  /\ night_shifts' = other.night_shifts
  /\ day_staff' = other.day_staff
  /\ night_staff' = other.night_staff
  /\ neutral_staff' = other.neutral_staff
  /\ result' = other.result
  /\ carried' = other.carried
  /\ previous' = other.previous
  /\ preempted' = other.preempted
  /\ UNCHANGED <<prefs, total_hours, assigned_shifts, autoVars, valVars, clockVars>>

\* the preference records of the interleaved runs: none, and one that prefers
\* nights under a cap of 12 hours
ConcurrentPrefChoices ==
  {p \in PrefChoices : p.unavailable_days = {} /\ p.max_hours_per_week >= 12}

\* the shift lists of the interleaved runs
ConcurrentShiftLists ==
  { <<MkShift(0, 8, 0, 480, 1, {}), MkShift(0, 16, 0, 479, 2, {})>>,
    <<MkShift(0, 16, 0, 479, 2, {}), MkShift(1, 8, 0, 480, 1, {})>> }

InitConcurrent ==
  /\ roster = <<1>>
  /\ prefs \in [StaffIds -> ConcurrentPrefChoices]
  /\ shifts \in ConcurrentShiftLists
  /\ total_hours = [s \in StaffIds |-> 0]
  /\ assigned_shifts = [s \in StaffIds |-> <<>>]
  /\ assigned_staff = [i \in 1..Len(shifts) |-> <<>>]
  /\ strategy = "none" /\ pc = "idle" /\ order = <<>> /\ idx = 1 /\ cands = <<>>
  /\ day_shifts = <<>> /\ night_shifts = <<>>
  /\ day_staff = <<>> /\ night_staff = <<>> /\ neutral_staff = <<>>
  /\ result = NoResult /\ carried = FALSE /\ previous = NoPrevious /\ preempted = FALSE
  /\ \E sh2 \in ConcurrentShiftLists :
       other = [kind |-> "frame", roster |-> [k \in 1..(NStaff - 1) |-> k + 1],
                shifts |-> sh2, assigned_staff |-> [i \in 1..Len(sh2) |-> <<>>],
                strategy |-> "none", pc |-> "idle", order |-> <<>>, idx |-> 1,
                cands |-> <<>>, day_shifts |-> <<>>, night_shifts |-> <<>>,
                day_staff |-> <<>>, night_staff |-> <<>>, neutral_staff |-> <<>>,
                result |-> NoResult, carried |-> FALSE, previous |-> NoPrevious,
                preempted |-> FALSE,
                staff_state |-> [k \in 1..(NStaff - 1) |-> <<0, <<>>>>]]
  /\ InitNoAuto
  /\ InitNoValidate
  /\ InitNoClock

NextConcurrent ==
  \/ \E name \in ClientStrategies \cap ClientNames : ClientGenerateSchedule(name)
  \/ \E name \in SchedulerStrategies \cap SchedulerNames : SchedulerGenerateSchedule(name)
  \/ PBS_Begin
  \/ PBS_Shift
  \/ PBS_Assign
  \/ PBS_Return
  \/ DN_Begin
  \/ DN_DayShift
  \/ DN_DayAssign
  \/ DN_NightShift
  \/ DN_NightAssign
  \/ DN_Return
  \/ Switch

SpecConcurrent == InitConcurrent /\ [][NextConcurrent]_vars

(***************************************************************************)
(* SpecClock: clock_in and clock_out of controllers/shift.py, called in    *)
(* any order by any user on the persisted shifts                           *)
(***************************************************************************)
MaxUser == 3
MaxClockShift == 2
MaxTime == 2

\* the User rows: ids 1..MaxUser, the last one an admin, the others staff;
\* User.query.get of any other id returns None
UserIds == 1..MaxUser

UserRole(user_id) == IF user_id = MaxUser THEN "admin" ELSE "staff"

\* the ids calls are made with: the users and one id without a User row, the
\* shifts and one id without a Shift row
CallerIds == 1..(MaxUser + 1)

ShiftIds == 1..MaxClockShift

CalledShiftIds == 1..(MaxClockShift + 1)

\* shift.clock_in / shift.clock_out is None
NoTimestamp == <<>>

\* _check_permissions(user_id, required_role): "ok", or the exception raised
CheckPermissions(user_id, required_role) ==
  IF user_id \notin UserIds THEN "User not found."
  ELSE IF UserRole(user_id) # required_role THEN "Access Denied"
  ELSE "ok"

\* mutant: any staff user may clock into any shift
ClockInOutcomeAnyStaff(staff_id, shift_id) ==
  IF CheckPermissions(staff_id, "staff") # "ok" THEN CheckPermissions(staff_id, "staff")
  ELSE IF shift_id \notin DOMAIN shift_table THEN "Shift not found."
  ELSE IF shift_table[shift_id].clock_in # NoTimestamp THEN "Already clocked in."
  ELSE "ok"

\* clock_in, lines 76-81: "ok", or the exception raised
ClockInOutcome(staff_id, shift_id) ==
  IF CheckPermissions(staff_id, "staff") # "ok" THEN CheckPermissions(staff_id, "staff")
  ELSE IF shift_id \notin DOMAIN shift_table THEN "Shift not found."
  ELSE IF shift_table[shift_id].staff_id # staff_id
       THEN "Cannot clock into another staff member's shift."
  ELSE IF shift_table[shift_id].clock_in # NoTimestamp THEN "Already clocked in."
  ELSE "ok"

\* clock_out, lines 94-100: "ok", or the exception raised
ClockOutOutcome(staff_id, shift_id) ==
  IF CheckPermissions(staff_id, "staff") # "ok" THEN CheckPermissions(staff_id, "staff")
  ELSE IF shift_id \notin DOMAIN shift_table THEN "Shift not found."
  ELSE IF shift_table[shift_id].staff_id # staff_id
       THEN "Cannot clock out from another staff member's shift."
  ELSE IF shift_table[shift_id].clock_in = NoTimestamp
       THEN "Must clock in before clocking out."
  ELSE IF shift_table[shift_id].clock_out # NoTimestamp THEN "Already clocked out."
  ELSE "ok"

notClock == <<stratVars, autoVars, valVars>>

\* clock_in(staff_id, shift_id), datetime.now() returning `now`
ClockIn(staff_id, shift_id, now) ==
  /\ shift_table_before' = shift_table
  /\ last_call' = [op |-> "clock_in", staff_id |-> staff_id, shift_id |-> shift_id,
                   outcome |-> ClockInOutcome(staff_id, shift_id)]
  /\ IF ClockInOutcome(staff_id, shift_id) = "ok"
     THEN shift_table' = [shift_table EXCEPT ![shift_id].clock_in = <<now>>]
     ELSE shift_table' = shift_table
  /\ UNCHANGED notClock

\* clock_out(staff_id, shift_id), datetime.now() returning `now`
ClockOut(staff_id, shift_id, now) ==
  /\ shift_table_before' = shift_table
  /\ last_call' = [op |-> "clock_out", staff_id |-> staff_id, shift_id |-> shift_id,
                   outcome |-> ClockOutOutcome(staff_id, shift_id)]
  /\ IF ClockOutOutcome(staff_id, shift_id) = "ok"
     THEN shift_table' = [shift_table EXCEPT ![shift_id].clock_out = <<now>>]
     ELSE shift_table' = shift_table
  /\ UNCHANGED notClock

\* who the shifts belong to: each shift to another user, the first one to the
\* admin; or every shift to the first staff user
OwnerChoices ==
  { [k \in ShiftIds |-> MaxUser + 1 - k], [k \in ShiftIds |-> 1] }

InitClock ==
  /\ roster = <<>>
  /\ shifts = <<>>
  /\ prefs = [s \in StaffIds |-> DefaultPrefs]
  /\ InitRun
  /\ InitNoAuto
  /\ v_summary = EmptySummary /\ v_count = 0 /\ v_outcome = "off"
  /\ \E owner \in OwnerChoices :
       shift_table = [k \in ShiftIds |->
                        [staff_id |-> owner[k], clock_in |-> NoTimestamp,
                         clock_out |-> NoTimestamp]]
  /\ shift_table_before = shift_table
  /\ last_call = NoCall

NextClock ==
  \/ \E staff_id \in CallerIds, shift_id \in CalledShiftIds, now \in 1..MaxTime :
       ClockIn(staff_id, shift_id, now)
  \/ \E staff_id \in CallerIds, shift_id \in CalledShiftIds, now \in 1..MaxTime :
       ClockOut(staff_id, shift_id, now)

SpecClock == InitClock /\ [][NextClock]_vars

(***************************************************************************)
(* Properties                                                              *)
(***************************************************************************)
Done == pc = "done"

DurationSum(s) == SumOver(assigned_shifts[s], LAMBDA i : ShiftDuration(shifts[i]))

\* C1: after a generate_schedule call no staff member's total_hours is above that
\* member's max_hours_per_week (checked under Spec; PreferenceBasedStrategy
\* violates it)
C1_NoHoursAboveCap ==
  Done => \A s \in Range(roster) :
            total_hours[s] <= GetPreferences(s).max_hours_per_week * MinutesPerHour

\* C2: when auto_populate returns a failure, the committed rows are exactly the
\* rows that were committed when it was called (checked under SpecAuto; violated)
C2_FailureLeavesRowsAsBefore ==
  (apc = "returned" /\ ~outcome.success) => db = db0

\* C3: an unregistered strategy name ends in an "unknown strategy" error that lists
\* exactly the registered names, with the staff and shift objects and the committed
\* rows as before the call (checked under SpecAuto; violated)
C3_UnknownStrategyListsNamesMutatesNothing ==
  /\ (pc = "raised" /\ result.text = "Unknown strategy")
       => result.lists_available
  /\ (apc = "returned" /\ ~outcome.success /\ outcome.message.text = "Unknown strategy")
       => /\ outcome.message.lists_available
          /\ outcome.message.available = ClientStrategies
          /\ db = db0
          /\ \A s \in StaffIds : total_hours[s] = 0 /\ assigned_shifts[s] = <<>>

\* C4: auto_populate called with an empty staff_list, start_date > end_date or
\* shifts_per_day <= 0 does not raise: it returns a failure outcome, before any
\* deletion, generation, strategy call or persistence (checked under SpecAuto;
\* violated)
C4_InvalidInputReturnsFailure ==
  (apc \notin {"idle", "off"}
   /\ (args.staff_list = <<>> \/ args.start_date > args.end_date
       \/ args.shifts_per_day <= 0))
    => /\ apc = "returned"
       /\ outcome.kind = "returned"
       /\ ~outcome.success
       /\ db = db0 /\ session_new = {} /\ session_deleted = {}
       /\ shifts = <<>> /\ pc = "idle"

\* C5: after a generate_schedule call every shift has at most required_staff
\* members in assigned_staff, none of them twice
C5_AtMostRequiredNoDuplicates ==
  Done => \A i \in 1..Len(shifts) :
            /\ Len(assigned_staff[i]) <= shifts[i].required_staff
            /\ Cardinality(Range(assigned_staff[i])) = Len(assigned_staff[i])

\* C5 witness: a finished run with one shift filled while a further eligible member
\* was left out (candidates outnumber the demand) and one shift left under-filled
C5_Witness ==
  /\ Done
  /\ \E i \in 1..Len(shifts) :
       /\ shifts[i].required_staff >= 1
       /\ Len(assigned_staff[i]) = shifts[i].required_staff
       /\ \E s \in Range(roster) \ Range(assigned_staff[i]) :
            PBS_CanWorkShift(s, i) /\ total_hours[s] = 0
  /\ \E j \in 1..Len(shifts) : Len(assigned_staff[j]) < shifts[j].required_staff

\* C6: after a generate_schedule call, also one that began on objects carrying the
\* assignments of an earlier call, each member's total_hours is the sum of the
\* durations of the member's assigned_shifts, and a member is in a shift's
\* assigned_staff exactly when the shift is in the member's assigned_shifts
C6_HoursAndListsConsistent ==
  Done => \A s \in Range(roster) :
            /\ total_hours[s] = DurationSum(s)
            /\ \A i \in 1..Len(shifts) :
                 (s \in Range(assigned_staff[i])) <=> (i \in Range(assigned_shifts[s]))

\* C6 witness: a finished second call, begun on objects that carried assignments,
\* that assigned hours again
C6_Witness ==
  /\ Done
  /\ carried
  /\ \E s \in Range(roster) : total_hours[s] > 0 /\ Len(assigned_shifts[s]) >= 2

\* C7: after a generate_schedule call no member is assigned a shift on one of the
\* member's unavailable weekdays, or a shift whose required_skills the member
\* does not all hold
C7_OnlyEligibleAssigned ==
  Done => \A i \in 1..Len(shifts) : \A s \in Range(assigned_staff[i]) :
            /\ (shifts[i].start_time \div MinutesPerDay) % 7
                 \notin GetPreferences(s).unavailable_days
            /\ shifts[i].required_skills \subseteq GetPreferences(s).skills

\* C7 witness: a finished run in which a member holding every required skill was
\* kept off an under-filled shift of an unavailable weekday, while a shift with a
\* required skill was assigned
C7_Witness ==
  /\ Done
  /\ \E i \in 1..Len(shifts) : \E s \in Range(roster) :
       /\ shifts[i].has_start
       /\ Weekday(shifts[i]) \in GetPreferences(s).unavailable_days
       /\ shifts[i].required_skills \subseteq GetPreferences(s).skills
       /\ Len(assigned_staff[i]) < shifts[i].required_staff
  /\ \E j \in 1..Len(shifts) :
       shifts[j].required_skills # {} /\ assigned_staff[j] # <<>>

\* C8: in scenario B every night shift is assigned to the night-preferring member
\* and every day shift to the neutral member (checked under SpecScenarioB; violated)
C8_ScenarioB ==
  Done => \A i \in 1..Len(shifts) :
            IF StartHour(shifts[i]) >= 22
            THEN assigned_staff[i] = <<NightPreferringB>>
            ELSE assigned_staff[i] = <<NeutralB>>

\* C9: balance validation passes an empty summary; for a non-empty one it fails
\* exactly when max_hours - min_hours > 20, or total_shifts_assigned < staff_count,
\* or max_hours > 1.5 * average; the failure reported names a condition that holds,
\* and a difference above 20 hours is reported as too unbalanced
C9_ValidationFailsExactlyWhen ==
  v_outcome \notin {"pending", "off"} =>
    LET diff == v_summary.max_hours - v_summary.min_hours > 20 * 60
        few == v_summary.total_shifts_assigned < v_count
        uneven == 2 * v_summary.max_hours * v_summary.average_hours_per_staff[2]
                    > 3 * v_summary.average_hours_per_staff[1]
    IN /\ v_summary.empty => v_outcome = "ok"
       /\ ~v_summary.empty =>
            /\ (v_outcome # "ok") <=> (diff \/ few \/ uneven)
            /\ diff <=> v_outcome = "Schedule too unbalanced - hour difference exceeds 20 hours"
            /\ v_outcome = "Not enough shifts assigned - some staff may have no shifts" => few
            /\ v_outcome = "Schedule distribution too uneven" => uneven

\* C9 witness: scenario D, a summary with a minimum of 0 and a maximum of 24 hours
\* was rejected as too unbalanced
C9_Witness ==
  /\ v_outcome = "Schedule too unbalanced - hour difference exceeds 20 hours"
  /\ ~v_summary.empty
  /\ v_summary.min_hours = 0
  /\ v_summary.max_hours = 24 * 60

WindowStart == args.start_date * MinutesPerDay
WindowEnd == args.end_date * MinutesPerDay + (MinutesPerDay - 1)

\* C10 as stated: the clear step removes exactly the rows of the target schedule
\* whose interval overlaps the window, and returns their number (checked under
\* SpecAuto; violated)
C10_ClearRemovesOverlapping ==
  apc = "generate" =>
    /\ db = {r \in db0 : ~(/\ r.schedule_id = args.schedule_id
                           /\ r.start_time <= WindowEnd
                           /\ r.end_time >= WindowStart)}
    /\ deleted_count = Cardinality(db0 \ db)

\* C10 amended: the clear step removes exactly the rows of the target schedule
\* whose start_time lies in the window from 00:00 of start_date to the end of
\* end_date, returns their number and leaves every other row unchanged
C10_ClearRemovesStartingInWindow ==
  apc = "generate" =>
    /\ db = {r \in db0 : ~(/\ r.schedule_id = args.schedule_id
                           /\ r.start_time >= WindowStart
                           /\ r.start_time <= WindowEnd)}
    /\ deleted_count = Cardinality(db0 \ db)

\* C10 witness: the clear step removed a row and kept a row of another schedule
\* and a row of the target schedule that begins before the window and ends in it
C10_Witness ==
  /\ apc = "generate"
  /\ deleted_count >= 1
  /\ \E r \in db : r.schedule_id # args.schedule_id
  /\ \E r \in db : /\ r.schedule_id = args.schedule_id
                   /\ r.start_time < WindowStart
                   /\ r.end_time >= WindowStart

Succeeded == apc = "returned" /\ outcome.success

\* the (shift, position) pairs the strategy committed
CommittedPairs ==
  UNION {{<<i, k>> : k \in 1..Len(assigned_staff[i])} : i \in 1..Len(shifts)}

PairTriple(p) ==
  <<assigned_staff[p[1]][p[2]], shifts[p[1]].start_time, shifts[p[1]].end_time>>

RowTriple(r) == <<r.staff_id, r.start_time, r.end_time>>

C12_ScoreIsStrategyScore ==
  Succeeded =>
    outcome.score[1] * result.score_value[2] = result.score_value[1] * outcome.score[2]

\* the slot of catalog position k: its date and its shift_num
SlotDate(k) == args.start_date + (k - 1) \div args.shifts_per_day

SlotNum(k) == (k - 1) % args.shifts_per_day

\* C13: the mixed catalog holds (days of the range) * shifts_per_day shifts, each
\* with empty assigned_staff and required_staff 1; on each day the shift with
\* shift_num 0 is 08:00-16:00 and every other one 16:00-23:59 of that day
C13_MixedCatalog ==
  (apc = "dispatch" /\ args.shift_type = "mixed") =>
    /\ Len(shifts) = (args.end_date - args.start_date + 1) * args.shifts_per_day
    /\ \A k \in 1..Len(shifts) :
         /\ assigned_staff[k] = <<>>
         /\ shifts[k].required_staff = 1
         /\ shifts[k].start_time =
              SlotDate(k) * 1440 + (IF SlotNum(k) = 0 THEN 8 * 60 ELSE 16 * 60)
         /\ shifts[k].end_time =
              SlotDate(k) * 1440 + (IF SlotNum(k) = 0 THEN 16 * 60 ELSE 23 * 60 + 59)

\* C13 witness: scenario C, a one-day range with shifts_per_day = 2 yields exactly
\* 08:00-16:00 and 16:00-23:59
C13_Witness ==
  /\ apc = "dispatch" /\ args.shift_type = "mixed"
  /\ args.start_date = args.end_date /\ args.shifts_per_day = 2
  /\ Len(shifts) = 2
  /\ shifts[1].start_time = args.start_date * 1440 + 480
  /\ shifts[1].end_time = args.start_date * 1440 + 960
  /\ shifts[2].start_time = args.start_date * 1440 + 960
  /\ shifts[2].end_time = args.start_date * 1440 + 1439

\* C14: catalog generation with shift_type day or night never fails for a positive
\* shifts_per_day, and yields for every day and shift_num a shift that starts at
\* hour 8 + shift_num (day) or 22 + shift_num (night) and lasts exactly 8 hours
\* (checked under SpecAuto; violated)
C14_DayNightCatalog ==
  (args.shift_type \in {"day", "night"} /\ apc \notin {"idle", "raised", "clear",
                                                      "clear_commit", "generate"}
   /\ ~(apc = "returned" /\ ~outcome.success /\ outcome.message.text = "commit failed"
        /\ shifts = <<>>))
    => /\ Len(shifts) = (args.end_date - args.start_date + 1) * args.shifts_per_day
       /\ \A k \in 1..Len(shifts) :
            /\ shifts[k].start_time =
                 SlotDate(k) * 1440
                   + ((IF args.shift_type = "day" THEN 8 ELSE 22) + SlotNum(k)) * 60
            /\ shifts[k].end_time - shifts[k].start_time = 8 * 60

\* the assignment state of the running call's staff and shifts equals the one
\* the preceding run left
SameAsPrevious ==
  /\ result = previous.result
  /\ assigned_staff = previous.assigned_staff
  /\ \A k \in 1..Len(roster) :
       /\ total_hours[roster[k]] = previous.total_hours[k]
       /\ assigned_shifts[roster[k]] = previous.assigned_shifts[k]

\* C15: a run of a strategy that directly follows a finished run of the same
\* strategy on the same staff, shifts and preference records ends with the same
\* ScheduleResult and the same assignments as that run
C15_SecondRunSameResult ==
  (Done /\ previous.kind = "run" /\ previous.strategy = strategy) => SameAsPrevious

\* C15 witness: a second run in a row has finished, the first one having left
\* assignments and hours behind
C15_Witness ==
  /\ Done /\ previous.kind = "run" /\ previous.strategy = strategy
  /\ carried
  /\ \E k \in 1..Len(roster) : previous.total_hours[k] > 0
  /\ \E i \in 1..Len(shifts) : Len(assigned_staff[i]) >= 2

\* the number of shifts that start before shift i
EarlierShifts(i) ==
  Cardinality({j \in 1..Len(shifts) : shifts[j].start_time < shifts[i].start_time})

MinOf(a, b) == IF a < b THEN a ELSE b

\* C16: PreferenceBasedStrategy with one staff member without stated preferences
\* (cap 40) and n 8-hour shifts, required_staff = 1, assigns the member to the
\* chronologically first min(n, 5) shifts and to no other, and the member ends
\* with total_hours = 8 * min(n, 5)
C16_FirstFiveShifts ==
  Done =>
    /\ \A i \in 1..Len(shifts) :
         assigned_staff[i] = (IF EarlierShifts(i) < 5 THEN <<1>> ELSE <<>>)
    /\ total_hours[1] = 8 * 60 * MinOf(Len(shifts), 5)
    /\ Len(assigned_shifts[1]) = MinOf(Len(shifts), 5)

\* C16 witness: with six shifts listed latest first the member holds 40 hours and
\* the chronologically last shift, the first of the list, stayed unassigned
C16_Witness ==
  /\ Done
  /\ Len(shifts) = 6
  /\ total_hours[1] = 40 * 60
  /\ assigned_staff[1] = <<>>
  /\ \A j \in 2..6 : shifts[j].start_time < shifts[1].start_time /\ assigned_staff[j] = <<1>>

InDayNight == strategy = "DayNightDistributeStrategy"

DayHour(sh) == sh.has_start /\ 6 <= StartHour(sh) /\ StartHour(sh) < 18

\* C18: DayNightDistributeStrategy places a shift starting at 06:00-17:59 in the
\* day bucket and every other shift in the night bucket, and never assigns a day
\* shift to a night-preferring member or a night shift to a day-preferring one
\* (checked under Spec; violated)
C18_BucketsByHour ==
  /\ (InDayNight /\ pc \in {"dn_day", "dn_day_assign", "dn_night", "dn_night_assign"})
       => /\ \A i \in 1..Len(shifts) : DayHour(shifts[i]) <=> i \in Range(day_shifts)
          /\ \A i \in 1..Len(shifts) : ~DayHour(shifts[i]) <=> i \in Range(night_shifts)
  /\ (InDayNight /\ Done)
       => \A i \in 1..Len(shifts) : \A s \in Range(assigned_staff[i]) :
            IF DayHour(shifts[i])
            THEN ~("night" \in GetPreferences(s).preferred_shift_types
                   /\ GetPreferences(s).preferred_shift_types \cap {"morning", "evening"} = {})
            ELSE ~("night" \notin GetPreferences(s).preferred_shift_types
                   /\ GetPreferences(s).preferred_shift_types \cap {"morning", "evening"} # {})

\* the shift a bucket loop of DayNightDistributeStrategy has just finished with
JustProcessed ==
  IF pc = "dn_day" THEN day_shifts[idx - 1] ELSE night_shifts[idx - 1]

\* the pool of the running bucket loop: the preferring staff plus the staff still
\* in the neutral pool
BucketPool ==
  Range(IF pc = "dn_day" THEN day_staff ELSE night_staff) \cup Range(neutral_staff)

\* C20: when DayNightDistributeStrategy has finished with a shift and left it with
\* fewer than required_staff assignees, every member of the bucket's pool who is
\* not assigned to it is ineligible for it or would exceed max_hours_per_week by
\* taking it (checked under SpecDayNight; violated)
C20_UnderfilledOnlyWithoutCandidates ==
  (InDayNight /\ pc \in {"dn_day", "dn_night"} /\ idx > 1
   /\ Len(assigned_staff[JustProcessed]) < shifts[JustProcessed].required_staff)
    => \A s \in BucketPool \ Range(assigned_staff[JustProcessed]) :
         \/ ~shifts[JustProcessed].has_start
         \/ Weekday(shifts[JustProcessed]) \in GetPreferences(s).unavailable_days
         \/ ~(shifts[JustProcessed].required_skills \subseteq GetPreferences(s).skills)
         \/ total_hours[s] + ShiftDuration(shifts[JustProcessed])
              > GetPreferences(s).max_hours_per_week * 60

\* the shift PreferenceBasedStrategy has just chosen candidates for
Current == order[idx]

JustChosen == pc = "pbs_assign" /\ assigned_staff[Current] = <<>>

\* +3 when the shift's type by start hour is among the member's preferred types
ScoreFor(s) ==
  LET h == (shifts[Current].start_time % 1440) \div 60
      type == IF 6 <= h /\ h < 14 THEN "morning"
              ELSE IF 14 <= h /\ h < 22 THEN "evening" ELSE "night"
  IN IF type \in GetPreferences(s).preferred_shift_types THEN 3 ELSE 0

\* eligible for the current shift and strictly under the hour cap
Available(s) ==
  /\ s \in Range(roster)
  /\ (shifts[Current].start_time \div 1440) % 7 \notin GetPreferences(s).unavailable_days
  /\ shifts[Current].required_skills \subseteq GetPreferences(s).skills
  /\ total_hours[s] < GetPreferences(s).max_hours_per_week * 60

\* C19: for each shift PreferenceBasedStrategy processes, the members it assigns
\* are the top `needed` of the eligible members strictly under their cap, by
\* descending preference score and then ascending current hours: no available
\* member left out has a higher score, or an equal score and fewer hours, than a
\* member chosen
C19_TopNeededByScoreThenHours ==
  /\ JustChosen =>
       /\ \A a \in Range(cands) : Available(a)
       /\ Cardinality(Range(cands)) = Len(cands)
       /\ Len(cands) =
            MinOf(shifts[Current].required_staff,
                  Cardinality({s \in Range(roster) : Available(s)}))
       /\ \A a \in Range(cands) :
            \A u \in {s \in Range(roster) : Available(s)} \ Range(cands) :
              ~(\/ ScoreFor(u) > ScoreFor(a)
                \/ ScoreFor(u) = ScoreFor(a) /\ total_hours[u] < total_hours[a])
  /\ (strategy = "PreferenceBasedStrategy" /\ pc = "pbs_assign")
       => \* the members assigned so far and those still to come are the chosen ones
          /\ Range(assigned_staff[Current]) \cap Range(cands) = {}
          /\ Len(assigned_staff[Current]) + Len(cands) <= shifts[Current].required_staff

\* C19 witness: a member with a preferred type and more hours was chosen over an
\* available member with fewer hours and no preference for the shift
C19_Witness ==
  /\ JustChosen
  /\ \E a \in Range(cands) : \E u \in Range(roster) \ Range(cands) :
       /\ Available(u)
       /\ ScoreFor(a) = 3 /\ ScoreFor(u) = 0
       /\ total_hours[a] > total_hours[u]

\* C17: of two interleaved invocations on disjoint staff and shift objects, one
\* that was suspended while the other ran ends with the same ScheduleResult and
\* the same assignments as the run of the same strategy on the same objects that
\* was not suspended (and the other way round), and the staff objects of the
\* suspended invocation are as they were when it was suspended
C17_InterleavedAsAlone ==
  /\ (Done /\ previous.kind = "run" /\ previous.strategy = strategy
      /\ preempted # previous.preempted) => SameAsPrevious
  /\ other.kind = "frame" => StaffState(other.roster) = other.staff_state

\* C17 witness: an invocation that was suspended has finished with assignments, its
\* preceding run was not suspended, and the other invocation has finished with
\* assignments as well
C17_Witness ==
  /\ Done /\ previous.kind = "run" /\ previous.strategy = strategy
  /\ preempted /\ ~previous.preempted
  /\ \E i \in 1..Len(shifts) : assigned_staff[i] # <<>>
  /\ other.kind = "frame" /\ other.pc = "done"
  /\ \E i \in 1..Len(other.shifts) : other.assigned_staff[i] # <<>>

\* a generate_schedule call is past its initial reset and has not returned
InRun ==
  pc \in {"pbs_loop", "pbs_assign", "dn_day", "dn_day_assign", "dn_night",
          "dn_night_assign", "dn_return"}

IsPrefix(a, b) == Len(a) <= Len(b) /\ SubSeq(b, 1, Len(a)) = a

\* C21: every step of a generate_schedule call after its initial reset leaves each
\* shift's assigned_staff and each member's assigned_shifts as they were or
\* appends to them, so a recorded (staff, shift) pair stays recorded, and never
\* lowers a member's total_hours
C21_AssignmentMonotonic ==
  [][InRun =>
       /\ \A i \in 1..Len(shifts) : IsPrefix(assigned_staff[i], assigned_staff'[i])
       /\ \A s \in StaffIds :
            /\ IsPrefix(assigned_shifts[s], assigned_shifts'[s])
            /\ total_hours'[s] >= total_hours[s]]_vars

\* C21 witness: a call that began on objects carrying assignments is past its
\* reset, has recorded a pair for the shift it is working on and has a further
\* member to assign to it
C21_Witness ==
  /\ InRun
  /\ carried
  /\ cands # <<>>
  /\ \E i \in 1..Len(shifts) : \E s \in Range(assigned_staff[i]) :
       /\ i \in Range(assigned_shifts[s])
       /\ total_hours[s] > 0
       /\ Head(cands) # s
       /\ pc = "pbs_assign" => order[idx] = i

Called == last_call.op # "none"

\* the call was one the claim lists as rejected, judged on the rows before it
ShouldReject ==
  LET u == last_call.staff_id
      k == last_call.shift_id
      row == shift_table_before[k]
  IN \/ u \notin 1..MaxUser
     \/ UserRole(u) # "staff"
     \/ k \notin DOMAIN shift_table_before
     \/ row.staff_id # u
     \/ last_call.op = "clock_in" /\ row.clock_in # <<>>
     \/ last_call.op = "clock_out" /\ (row.clock_in = <<>> \/ row.clock_out # <<>>)

\* C22: over every sequence of clock_in and clock_out calls, clock_out is set
\* only on a shift whose clock_in is set; a timestamp once set is never changed;
\* a call changes nothing but the one timestamp it is about, of the shift it
\* names, and only when made by the staff user the shift belongs to; and a call
\* by an unknown user, a user of another role or another staff member, on an
\* unknown shift, on a shift already clocked in (out), or clocking out before
\* clocking in, is rejected and leaves every shift unchanged
C22_ClockDiscipline ==
  /\ \A k \in DOMAIN shift_table : shift_table[k].clock_out # <<>> => shift_table[k].clock_in # <<>>
  /\ Called =>
       /\ DOMAIN shift_table = DOMAIN shift_table_before
       /\ \A k \in DOMAIN shift_table :
            /\ shift_table[k].staff_id = shift_table_before[k].staff_id
            /\ shift_table_before[k].clock_in # <<>>
                 => shift_table[k].clock_in = shift_table_before[k].clock_in
            /\ shift_table_before[k].clock_out # <<>>
                 => shift_table[k].clock_out = shift_table_before[k].clock_out
            /\ shift_table[k] # shift_table_before[k]
                 => /\ last_call.outcome = "ok"
                    /\ last_call.shift_id = k
                    /\ last_call.staff_id = shift_table[k].staff_id
                    /\ UserRole(last_call.staff_id) = "staff"
                    /\ IF last_call.op = "clock_in"
                       THEN shift_table[k].clock_out = shift_table_before[k].clock_out
                       ELSE shift_table[k].clock_in = shift_table_before[k].clock_in
       /\ (last_call.outcome # "ok") <=> ShouldReject
       /\ last_call.outcome # "ok" => shift_table = shift_table_before
       /\ last_call.outcome = "ok" => shift_table # shift_table_before

\* C22 witness: the owner of a clocked-in shift has just clocked out of it, while
\* a shift that belongs to the admin has stayed without timestamps
C22_Witness ==
  /\ last_call.op = "clock_out" /\ last_call.outcome = "ok"
  /\ shift_table[last_call.shift_id].clock_in # <<>>
  /\ shift_table[last_call.shift_id].clock_out # <<>>
  /\ shift_table_before[last_call.shift_id].clock_out = <<>>
  /\ \E k \in DOMAIN shift_table :
       /\ UserRole(shift_table[k].staff_id) = "admin"
       /\ shift_table[k].clock_in = <<>>

====
